---- MODULE Spec2Model ----
(***************************************************************************)
(* Model of the single-object video tracker (DeadLemon/tracker).           *)
(*                                                                         *)
(* The main loop (main.go) alternates a frame tick (FrameCount++,          *)
(* ProcessAutoTracking, the default fallback, ProcessTracking) with one    *)
(* key command (ProcessInput).  The tracker, the background subtractor and *)
(* the contour primitives are opaque collaborators: their results are      *)
(* nondeterministic inputs of the tick.  DebugMode stays off in the        *)
(* tracking specification (key 'd' is not pressed), so every Log call      *)
(* returns at its first test and the log buffer is not touched.            *)
(*                                                                         *)
(* Specifications: Spec (the main loop), SpecHistory (the main loop with   *)
(* the history of its modes), SpecSelect (the selection with every nudge   *)
(* and resize key), SpecConstrain (ConstrainBoundingBox), SpecDetect       *)
(* (the contour selection of ProcessAutoTracking), SpecLog (DebugLogger).  *)
(***************************************************************************)
EXTENDS Integers, Sequences, FiniteSets, TLC

VARIABLES
    state,          \* types.AppState (the fields the tracking logic uses)
    trackingRect,   \* main: trackingRect, the region ProcessTracking returned on the last tick
    calls,          \* tracker calls made by the last step, in order
    pc,             \* position in the main loop: "frame", "input", "quit"; "cb" in SpecConstrain
    cb,             \* SpecConstrain: arguments and results of ConstrainBoundingBox
    det,            \* SpecDetect: the contours of one tick and what the detector made of them
    logger,         \* SpecLog: DebugMode, DebugLogs and the messages handed to Log
    hist            \* SpecHistory: what the session was before the selection and before the tick

vars == <<state, trackingRect, calls, pc, cb, det, logger, hist>>

----------------------------------------------------------------------------
(* Program constants: types.DefaultTrackingConfig and literals of the code *)

MaxROIGrowth == <<2, 1>>          \* 2.0, as numerator/denominator
MinROISize == 40
MaxTrackingFailures == 12
SearchRadius == 120
SizeChangeThreshold == 5          \* 5.0
MinContourArea == 500
StabilizationFrames == 30
Padding == 20
NudgeStep == 10
ResizeStep == 20
MinSelectionSize == 40

KeyNone == -1
KeyEsc == 27
KeyEnter == 13
KeyUp == 0
KeyDown == 1
KeyLeft == 2
KeyRight == 3
KeyPlus == 43
KeyEquals == 61                   \* '=', the same case as '+'
KeyMinus == 45
KeyUnderscore == 95               \* '_', the same case as '-'
KeyS == 115
KeyA == 97
KeyR == 114
KeyQ == 113
MaxDebugLogs == 10                \* types.DefaultUIConfig

----------------------------------------------------------------------------
(* Bounds of the model *)

FrameCols == 160                  \* frame.Cols() of the camera
FrameRows == 120                  \* frame.Rows()
MaxFrameCount == 32               \* a tick is taken only while FrameCount is below this
MaxAdjust == 1                    \* nudge/resize commands explored in one run
MaxContours == 2                  \* contours found on one tick

----------------------------------------------------------------------------
(* image.Rectangle *)

GoDiv(a, b) == IF a >= 0 THEN a \div b ELSE -((-a) \div b)

Min2(a, b) == IF a < b THEN a ELSE b
Max2(a, b) == IF a > b THEN a ELSE b

Rect(x0, y0, x1, y1) ==
    [MinX |-> Min2(x0, x1), MinY |-> Min2(y0, y1),
     MaxX |-> Max2(x0, x1), MaxY |-> Max2(y0, y1)]

ZR == [MinX |-> 0, MinY |-> 0, MaxX |-> 0, MaxY |-> 0]

Dx(r) == r.MaxX - r.MinX
Dy(r) == r.MaxY - r.MinY
Empty(r) == r.MinX >= r.MaxX \/ r.MinY >= r.MaxY
AddPt(r, dx, dy) ==
    [MinX |-> r.MinX + dx, MinY |-> r.MinY + dy,
     MaxX |-> r.MaxX + dx, MaxY |-> r.MaxY + dy]

----------------------------------------------------------------------------
(* utils.ConstrainBoundingBox *)

\* int(float64(initialSize) * maxGrowth), maxGrowth given as <<num, den>>
MaxAllowedSize(initialSize, maxGrowth) ==
    GoDiv(initialSize * maxGrowth[1], maxGrowth[2])

\* one dimension: the growth cap first, then the floor
ConstrainSize(current, maxAllowedSize, minSize) ==
    LET capped == IF current > maxAllowedSize THEN maxAllowedSize ELSE current
    IN  IF capped < minSize THEN minSize ELSE capped

\* variant: the new size anchored at the original corner
RecentreAtCorner(rect, newWidth, newHeight) ==
    Rect(rect.MinX, rect.MinY,
         rect.MinX + 2 * GoDiv(newWidth, 2), rect.MinY + 2 * GoDiv(newHeight, 2))

\* the rectangle of the new size around the centre of the original one
Recentre(rect, newWidth, newHeight) ==
    LET centerX == rect.MinX + GoDiv(Dx(rect), 2)
        centerY == rect.MinY + GoDiv(Dy(rect), 2)
        halfWidth == GoDiv(newWidth, 2)
        halfHeight == GoDiv(newHeight, 2)
    IN  Rect(centerX - halfWidth, centerY - halfHeight,
             centerX + halfWidth, centerY + halfHeight)

\* variant: the left overflow added with the wrong sign
FitToImageWrongSign(newRect, imgWidth, imgHeight) ==
    LET r1 == IF newRect.MinX < 0 THEN AddPt(newRect, newRect.MinX, 0) ELSE newRect
        r2 == IF r1.MinY < 0 THEN AddPt(r1, 0, -r1.MinY) ELSE r1
        r3 == IF r2.MaxX > imgWidth THEN AddPt(r2, imgWidth - r2.MaxX, 0) ELSE r2
        r4 == IF r3.MaxY > imgHeight THEN AddPt(r3, 0, imgHeight - r3.MaxY) ELSE r3
    IN  r4

\* the four translations, in the order of the code
FitToImage(newRect, imgWidth, imgHeight) ==
    LET r1 == IF newRect.MinX < 0 THEN AddPt(newRect, -newRect.MinX, 0) ELSE newRect
        r2 == IF r1.MinY < 0 THEN AddPt(r1, 0, -r1.MinY) ELSE r1
        r3 == IF r2.MaxX > imgWidth THEN AddPt(r2, imgWidth - r2.MaxX, 0) ELSE r2
        r4 == IF r3.MaxY > imgHeight THEN AddPt(r3, 0, imgHeight - r3.MaxY) ELSE r3
    IN  r4

ConstrainBoundingBox(rect, initialSize, maxGrowth, minSize, imgWidth, imgHeight) ==
    LET maxAllowedSize == MaxAllowedSize(initialSize, maxGrowth)
        newWidth == ConstrainSize(Dx(rect), maxAllowedSize, minSize)
        newHeight == ConstrainSize(Dy(rect), maxAllowedSize, minSize)
    IN  FitToImage(Recentre(rect, newWidth, newHeight), imgWidth, imgHeight)

----------------------------------------------------------------------------
(* Results the opaque collaborators may produce *)

\* rectangles Tracker.Update may report: inside the frame, tiny, larger than
\* the frame
TrackerRects ==
    { Rect(30, 20, 90, 70),
      Rect(60, 50, 64, 54),
      Rect(0, 0, 300, 260) }

\* contours FindContours may report: [area, BoundingRect]
ContourKinds ==
    { [area |-> 600, rect |-> Rect(50, 40, 90, 70)],
      [area |-> 100, rect |-> Rect(10, 10, 20, 20)] }

ContourSeqs == UNION {[1..n -> ContourKinds] : n \in 0..MaxContours}

----------------------------------------------------------------------------
(* package tracking *)

\* the search window TryTrackingRecovery hands to Tracker.Init
SearchRect(lastRect, searchRadius, cols, rows) ==
    LET centerX == lastRect.MinX + GoDiv(Dx(lastRect), 2)
        centerY == lastRect.MinY + GoDiv(Dy(lastRect), 2)
        s == Rect(centerX - searchRadius, centerY - searchRadius,
                  centerX + searchRadius, centerY + searchRadius)
    IN  [MinX |-> IF s.MinX < 0 THEN 0 ELSE s.MinX,
         MinY |-> IF s.MinY < 0 THEN 0 ELSE s.MinY,
         MaxX |-> IF s.MaxX > cols THEN cols ELSE s.MaxX,
         MaxY |-> IF s.MaxY > rows THEN rows ELSE s.MaxY]

\* variant: a later contour of equal area replaces the selected one
RECURSIVE LargestContourLastTie(_, _, _, _)
LargestContourLastTie(contours, i, largestArea, largestIndex) ==
    IF i > Len(contours) THEN largestIndex
    ELSE IF contours[i].area >= largestArea /\ contours[i].area > MinContourArea
         THEN LargestContourLastTie(contours, i + 1, contours[i].area, i)
         ELSE LargestContourLastTie(contours, i + 1, largestArea, largestIndex)

\* the loop over the contours: index (1-based, 0 for none) of the selected one
RECURSIVE LargestContour(_, _, _, _)
LargestContour(contours, i, largestArea, largestIndex) ==
    IF i > Len(contours) THEN largestIndex
    ELSE IF contours[i].area > largestArea /\ contours[i].area > MinContourArea
         THEN LargestContour(contours, i + 1, contours[i].area, i)
         ELSE LargestContour(contours, i + 1, largestArea, largestIndex)

\* the bounding rectangle with its padding, clamped to the frame
PaddedROI(roi, cols, rows) ==
    LET p == Rect(roi.MinX - Padding, roi.MinY - Padding,
                  roi.MaxX + Padding, roi.MaxY + Padding)
    IN  [MinX |-> IF p.MinX < 0 THEN 0 ELSE p.MinX,
         MinY |-> IF p.MinY < 0 THEN 0 ELSE p.MinY,
         MaxX |-> IF p.MaxX > cols THEN cols ELSE p.MaxX,
         MaxY |-> IF p.MaxY > rows THEN rows ELSE p.MaxY]

InitCall(rect, ok) == [op |-> "Init", rect |-> rect, ok |-> ok]
UpdateCall(rect, ok) == [op |-> "Update", rect |-> rect, ok |-> ok]

\* variant: the warm-up over one frame early
AutoDetectGateEarly(st) ==
    ~(st.TrackingEnabled \/ ~st.AutoTrackingEnabled \/ st.ROISelectionMode
        \/ st.FrameCount < StabilizationFrames)

\* the early return of ProcessAutoTracking, negated
AutoDetectGate(st) ==
    ~(st.TrackingEnabled \/ ~st.AutoTrackingEnabled \/ st.ROISelectionMode
        \/ st.FrameCount <= StabilizationFrames)

\* variant: the candidate is stored before Tracker.Init has answered
ProcessAutoTrackingStoresFirst(st, contours, initOk) ==
    IF ~AutoDetectGate(st)
    THEN [st |-> st, calls |-> <<>>]
    ELSE LET idx == LargestContour(contours, 1, 0, 0)
         IN  IF idx = 0 THEN [st |-> st, calls |-> <<>>]
             ELSE LET roi == PaddedROI(contours[idx].rect, FrameCols, FrameRows)
                      s1 == [st EXCEPT !.ROI = roi,
                                       !.InitialROISize = GoDiv(Dx(roi) + Dy(roi), 2)]
                  IN  IF initOk
                      THEN [st |-> [s1 EXCEPT !.TrackingEnabled = TRUE,
                                              !.AutoTrackingEnabled = FALSE],
                            calls |-> <<InitCall(roi, TRUE)>>]
                      ELSE [st |-> s1, calls |-> <<InitCall(roi, FALSE)>>]

\* ProcessAutoTracking: contours are this tick's contours, initOk what
\* Tracker.Init answers if it is called.  Result: the new state and the calls.
ProcessAutoTracking(st, contours, initOk) ==
    IF ~AutoDetectGate(st)
    THEN [st |-> st, calls |-> <<>>]
    ELSE LET idx == LargestContour(contours, 1, 0, 0)
         IN  IF idx = 0 THEN [st |-> st, calls |-> <<>>]
             ELSE LET roi == PaddedROI(contours[idx].rect, FrameCols, FrameRows)
                  IN  IF initOk
                      THEN [st |-> [st EXCEPT !.ROI = roi,
                                              !.TrackingEnabled = TRUE,
                                              !.AutoTrackingEnabled = FALSE,
                                              !.InitialROISize = GoDiv(Dx(roi) + Dy(roi), 2)],
                            calls |-> <<InitCall(roi, TRUE)>>]
                      ELSE [st |-> st, calls |-> <<InitCall(roi, FALSE)>>]

\* variant: the fallback without the test of ROISelectionMode
DefaultFallbackInSelection(st) ==
    IF ~st.TrackingEnabled /\ ~st.AutoTrackingEnabled
    THEN [st EXCEPT !.AutoTrackingEnabled = TRUE]
    ELSE st

\* variant: no fallback
DefaultFallbackMissing(st) == st

\* main.go: "Enable auto-tracking by default if nothing is active"
DefaultFallback(st) ==
    IF ~st.TrackingEnabled /\ ~st.AutoTrackingEnabled /\ ~st.ROISelectionMode
    THEN [st EXCEPT !.AutoTrackingEnabled = TRUE]
    ELSE st

\* variant: only growth is suspicious
SuspiciousGrowthOnly(currentSize, lastSize) ==
    currentSize > SizeChangeThreshold * lastSize

\* the size-change test of ProcessTracking; the float comparisons
\* c/l > t and c/l < 1/t are c > t*l and t*c < l on these integers
SuspiciousSize(currentSize, lastSize) ==
    currentSize > SizeChangeThreshold * lastSize
        \/ SizeChangeThreshold * currentSize < lastSize

RectSize(r) == GoDiv(Dx(r) + Dy(r), 2)

\* variant: strictly more failures than the maximum
GiveUpLate(failureCount) == failureCount > MaxTrackingFailures

\* the give-up test of ProcessTracking
GiveUp(failureCount) == failureCount >= MaxTrackingFailures

\* ProcessTracking, the update succeeded: s1 has the counter reset already
TrackingSuccess(s1, upd) ==
    IF ~Empty(s1.LastKnownRect)
         /\ SuspiciousSize(RectSize(upd.rect), RectSize(s1.LastKnownRect))
    THEN [st |-> [s1 EXCEPT !.TrackingFailureCount = @ + 1],
          rect |-> s1.LastKnownRect,
          calls |-> <<UpdateCall(upd.rect, TRUE)>>]
    ELSE LET rect == ConstrainBoundingBox(upd.rect, s1.InitialROISize, MaxROIGrowth,
                                          MinROISize, FrameCols, FrameRows)
         IN  [st |-> [s1 EXCEPT !.LastKnownRect = rect],
              rect |-> rect,
              calls |-> <<UpdateCall(upd.rect, TRUE)>>]

\* variant: giving up still returns the last known rectangle
TrackingGiveUpKeepsRect(s1, upd) ==
    [st |-> [s1 EXCEPT !.TrackingEnabled = FALSE,
                       !.TrackingFailureCount = 0,
                       !.AutoTrackingEnabled = IF ~s1.ROISelectionMode THEN TRUE ELSE @],
     rect |-> s1.LastKnownRect,
     calls |-> <<UpdateCall(upd.rect, FALSE)>>]

\* variant: giving up leaves the failure counter at the threshold
TrackingGiveUpKeepsCount(s1, upd) ==
    [st |-> [s1 EXCEPT !.TrackingEnabled = FALSE,
                       !.AutoTrackingEnabled = IF ~s1.ROISelectionMode THEN TRUE ELSE @],
     rect |-> ZR,
     calls |-> <<UpdateCall(upd.rect, FALSE)>>]

\* ProcessTracking, too many failures
TrackingGiveUp(s1, upd) ==
    [st |-> [s1 EXCEPT !.TrackingEnabled = FALSE,
                       !.TrackingFailureCount = 0,
                       !.AutoTrackingEnabled = IF ~s1.ROISelectionMode THEN TRUE ELSE @],
     rect |-> ZR,
     calls |-> <<UpdateCall(upd.rect, FALSE)>>]

\* variant: a successful recovery leaves the failure counter as it is
TrackingRecoveryKeepsCount(s1, upd, recOk) ==
    IF ~Empty(s1.LastKnownRect)
    THEN LET search == SearchRect(s1.LastKnownRect, SearchRadius, FrameCols, FrameRows)
         IN  [st |-> s1,
              rect |-> s1.LastKnownRect,
              calls |-> <<UpdateCall(upd.rect, FALSE), InitCall(search, recOk)>>]
    ELSE [st |-> s1, rect |-> ZR, calls |-> <<UpdateCall(upd.rect, FALSE)>>]

\* ProcessTracking, a failure below the threshold
TrackingRecovery(s1, upd, recOk) ==
    IF ~Empty(s1.LastKnownRect)
    THEN LET search == SearchRect(s1.LastKnownRect, SearchRadius, FrameCols, FrameRows)
         IN  [st |-> IF recOk THEN [s1 EXCEPT !.TrackingFailureCount = 0] ELSE s1,
              rect |-> s1.LastKnownRect,
              calls |-> <<UpdateCall(upd.rect, FALSE), InitCall(search, recOk)>>]
    ELSE [st |-> s1, rect |-> ZR, calls |-> <<UpdateCall(upd.rect, FALSE)>>]

\* variant: a successful update does not reset the failure counter
ProcessTrackingNoReset(st, upd, recOk) ==
    IF ~st.TrackingEnabled
    THEN [st |-> st, rect |-> ZR, calls |-> <<>>]
    ELSE IF upd.ok
    THEN TrackingSuccess(st, upd)
    ELSE LET s1 == [st EXCEPT !.TrackingFailureCount = @ + 1]
         IN  IF GiveUp(s1.TrackingFailureCount)
             THEN TrackingGiveUp(s1, upd)
             ELSE TrackingRecovery(s1, upd, recOk)

\* ProcessTracking: upd is what Tracker.Update answers, recOk what Tracker.Init
\* answers inside TryTrackingRecovery.  Result: state, returned rectangle, calls.
ProcessTracking(st, upd, recOk) ==
    IF ~st.TrackingEnabled
    THEN [st |-> st, rect |-> ZR, calls |-> <<>>]
    ELSE IF upd.ok
    THEN TrackingSuccess([st EXCEPT !.TrackingFailureCount = 0], upd)
    ELSE LET s1 == [st EXCEPT !.TrackingFailureCount = @ + 1]
         IN  IF GiveUp(s1.TrackingFailureCount)
             THEN TrackingGiveUp(s1, upd)
             ELSE TrackingRecovery(s1, upd, recOk)

\* variant: tracking starts whatever Tracker.Init answered
InitializeTrackingUnchecked(st, roi, initOk) ==
    [st EXCEPT !.ROI = roi,
               !.TrackingEnabled = TRUE,
               !.ROISelectionMode = FALSE,
               !.AutoTrackingEnabled = FALSE,
               !.InitialROISize = GoDiv(Dx(roi) + Dy(roi), 2)]

\* InitializeTracking: result state and whether it succeeded
InitializeTracking(st, roi, initOk) ==
    IF initOk
    THEN [st EXCEPT !.ROI = roi,
                    !.TrackingEnabled = TRUE,
                    !.ROISelectionMode = FALSE,
                    !.AutoTrackingEnabled = FALSE,
                    !.InitialROISize = GoDiv(Dx(roi) + Dy(roi), 2)]
    ELSE st

ResetTracking(st) ==
    [st EXCEPT !.TrackingEnabled = FALSE,
               !.AutoTrackingEnabled = TRUE,
               !.ROISelectionMode = FALSE,
               !.FrameCount = 0]

EnableAutoTracking(st) ==
    IF ~st.ROISelectionMode
    THEN [st EXCEPT !.AutoTrackingEnabled = TRUE,
                    !.TrackingEnabled = FALSE,
                    !.FrameCount = 0]
    ELSE st

----------------------------------------------------------------------------
(* package input *)

\* variant: cancelling leaves auto-tracking as it is
HandleEscapeKeyKeepsAuto(st) ==
    IF st.ROISelectionMode
    THEN [st |-> [st EXCEPT !.ROISelectionMode = FALSE], quit |-> FALSE]
    ELSE [st |-> st, quit |-> TRUE]

\* HandleEscapeKey: result state and whether the program quits
HandleEscapeKey(st) ==
    IF st.ROISelectionMode
    THEN [st |-> [st EXCEPT !.ROISelectionMode = FALSE,
                            !.AutoTrackingEnabled =
                                IF ~st.TrackingEnabled THEN TRUE ELSE @],
          quit |-> FALSE]
    ELSE [st |-> st, quit |-> TRUE]

\* variant: selection starts without switching tracking off
StartROISelectionKeepsTracking(st) ==
    IF ~st.ROISelectionMode
    THEN [st EXCEPT !.AutoTrackingEnabled = FALSE,
                    !.ROISelectionMode = TRUE,
                    !.ROICenterX = GoDiv(FrameCols, 2),
                    !.ROICenterY = GoDiv(FrameRows, 2)]
    ELSE st

\* case 's' of HandleMainKeys
StartROISelection(st) ==
    IF ~st.ROISelectionMode
    THEN [st EXCEPT !.AutoTrackingEnabled = FALSE,
                    !.TrackingEnabled = FALSE,
                    !.ROISelectionMode = TRUE,
                    !.ROICenterX = GoDiv(FrameCols, 2),
                    !.ROICenterY = GoDiv(FrameRows, 2)]
    ELSE st

\* case 'a' of HandleMainKeys
ToggleAutoTracking(st) ==
    IF ~st.ROISelectionMode
    THEN IF st.AutoTrackingEnabled
         THEN [st EXCEPT !.AutoTrackingEnabled = FALSE, !.TrackingEnabled = FALSE]
         ELSE EnableAutoTracking(st)
    ELSE st

HandleMainKeys(key, st) ==
    CASE key = KeyQ -> [st |-> st, quit |-> TRUE]
      [] key = KeyS -> [st |-> StartROISelection(st), quit |-> FALSE]
      [] key = KeyA -> [st |-> ToggleAutoTracking(st), quit |-> FALSE]
      [] key = KeyR -> [st |-> ResetTracking(st), quit |-> FALSE]
      [] OTHER -> [st |-> st, quit |-> FALSE]

\* cases 0..3 of HandleROIKeys
NudgeROI(key, st) ==
    CASE key = KeyUp ->
            LET y == st.ROICenterY - NudgeStep
            IN  [st EXCEPT !.ROICenterY =
                    IF y < GoDiv(st.ROIHeight, 2) THEN GoDiv(st.ROIHeight, 2) ELSE y]
      [] key = KeyDown ->
            LET y == st.ROICenterY + NudgeStep
            IN  [st EXCEPT !.ROICenterY =
                    IF y > FrameRows - GoDiv(st.ROIHeight, 2)
                    THEN FrameRows - GoDiv(st.ROIHeight, 2) ELSE y]
      [] key = KeyLeft ->
            LET x == st.ROICenterX - NudgeStep
            IN  [st EXCEPT !.ROICenterX =
                    IF x < GoDiv(st.ROIWidth, 2) THEN GoDiv(st.ROIWidth, 2) ELSE x]
      [] key = KeyRight ->
            LET x == st.ROICenterX + NudgeStep
            IN  [st EXCEPT !.ROICenterX =
                    IF x > FrameCols - GoDiv(st.ROIWidth, 2)
                    THEN FrameCols - GoDiv(st.ROIWidth, 2) ELSE x]

\* variant: growing without the limit of the frame
ResizeROIUnlimited(key, st) ==
    CASE key \in {KeyPlus, KeyEquals} ->
            [st EXCEPT !.ROIWidth = @ + ResizeStep, !.ROIHeight = @ + ResizeStep]
      [] key \in {KeyMinus, KeyUnderscore} ->
            LET w == st.ROIWidth - ResizeStep
                h == st.ROIHeight - ResizeStep
            IN  [st EXCEPT !.ROIWidth = IF w < MinSelectionSize THEN MinSelectionSize ELSE w,
                           !.ROIHeight = IF h < MinSelectionSize THEN MinSelectionSize ELSE h]

\* cases '+', '=' and '-', '_' of HandleROIKeys
ResizeROI(key, st) ==
    CASE key \in {KeyPlus, KeyEquals} ->
            LET w == st.ROIWidth + ResizeStep
                h == st.ROIHeight + ResizeStep
            IN  [st EXCEPT !.ROIWidth = IF w > FrameCols THEN FrameCols ELSE w,
                           !.ROIHeight = IF h > FrameRows THEN FrameRows ELSE h]
      [] key \in {KeyMinus, KeyUnderscore} ->
            LET w == st.ROIWidth - ResizeStep
                h == st.ROIHeight - ResizeStep
            IN  [st EXCEPT !.ROIWidth = IF w < MinSelectionSize THEN MinSelectionSize ELSE w,
                           !.ROIHeight = IF h < MinSelectionSize THEN MinSelectionSize ELSE h]

\* the rectangle ENTER finalizes from the selection, clamped to the frame
ConfirmedROI(st) ==
    LET halfWidth == GoDiv(st.ROIWidth, 2)
        halfHeight == GoDiv(st.ROIHeight, 2)
        x1 == st.ROICenterX - halfWidth
        y1 == st.ROICenterY - halfHeight
        x2 == st.ROICenterX + halfWidth
        y2 == st.ROICenterY + halfHeight
    IN  Rect(IF x1 < 0 THEN 0 ELSE x1,
             IF y1 < 0 THEN 0 ELSE y1,
             IF x2 > FrameCols THEN FrameCols ELSE x2,
             IF y2 > FrameRows THEN FrameRows ELSE y2)

\* variant: a failed confirm stays in the selection
ConfirmROIStaysSelecting(st, initOk) ==
    InitializeTracking(st, ConfirmedROI(st), initOk)

\* case 13 of HandleROIKeys
ConfirmROI(st, initOk) ==
    IF initOk
    THEN InitializeTracking(st, ConfirmedROI(st), TRUE)
    ELSE [InitializeTracking(st, ConfirmedROI(st), FALSE) EXCEPT !.ROISelectionMode = FALSE]

\* HandleROIKeys: result state and tracker calls
HandleROIKeys(key, st, initOk) ==
    IF ~st.ROISelectionMode
    THEN [st |-> st, calls |-> <<>>]
    ELSE CASE key \in {KeyUp, KeyDown, KeyLeft, KeyRight} ->
                [st |-> NudgeROI(key, st), calls |-> <<>>]
           [] key \in {KeyPlus, KeyEquals, KeyMinus, KeyUnderscore} ->
                [st |-> ResizeROI(key, st), calls |-> <<>>]
           [] key = KeyEnter ->
                [st |-> ConfirmROI(st, initOk),
                 calls |-> <<InitCall(ConfirmedROI(st), initOk)>>]
           [] OTHER -> [st |-> st, calls |-> <<>>]

\* ProcessInput: result state, tracker calls, quit
ProcessInput(key, st, initOk) ==
    IF key = KeyEsc
    THEN [st |-> HandleEscapeKey(st).st, calls |-> <<>>, quit |-> HandleEscapeKey(st).quit]
    ELSE LET m == HandleMainKeys(key, st)
         IN  IF m.quit
             THEN [st |-> m.st, calls |-> <<>>, quit |-> TRUE]
             ELSE LET r == HandleROIKeys(key, m.st, initOk)
                  IN  [st |-> r.st, calls |-> r.calls, quit |-> FALSE]

----------------------------------------------------------------------------
(* package main: the state after construction and the main loop *)

InitialState ==
    [TrackingEnabled |-> FALSE,
     AutoTrackingEnabled |-> TRUE,
     ROI |-> ZR,
     InitialROISize |-> 0,
     TrackingFailureCount |-> 0,
     LastKnownRect |-> ZR,
     ROISelectionMode |-> FALSE,
     ROICenterX |-> 320,
     ROICenterY |-> 240,
     ROIWidth |-> 100,
     ROIHeight |-> 100,
     FrameCount |-> 0,
     Adjusts |-> 0]

NoConstrain == [stage |-> "off"]
NoDetect == [stage |-> "off"]
NoLogger == [stage |-> "off"]
NoHistory == [stage |-> "off"]

Init ==
    /\ state = InitialState
    /\ trackingRect = ZR
    /\ calls = <<>>
    /\ pc = "frame"
    /\ cb = NoConstrain
    /\ det = NoDetect
    /\ logger = NoLogger
    /\ hist = NoHistory

\* one pass of the loop body up to the key read: FrameCount++,
\* ProcessAutoTracking, the default fallback, ProcessTracking
FrameStep(st, contours, initOk, upd, recOk) ==
    LET s0 == [st EXCEPT !.FrameCount = @ + 1]
        a == ProcessAutoTracking(s0, contours, initOk)
        s2 == DefaultFallback(a.st)
        t == ProcessTracking(s2, upd, recOk)
    IN  [st |-> t.st, rect |-> t.rect, calls |-> a.calls \o t.calls]

\* The collaborators' answers are inputs of the tick only where the tick asks
\* for them; an answer that is not asked for is fixed.
NoUpdate == [rect |-> ZR, ok |-> FALSE]

UpdateResults == {[rect |-> r, ok |-> TRUE] : r \in TrackerRects} \cup {NoUpdate}

ContoursAsked(s0) == IF AutoDetectGate(s0) THEN ContourSeqs ELSE {<<>>}

InitAsked(s0, contours) ==
    IF AutoDetectGate(s0) /\ LargestContour(contours, 1, 0, 0) # 0 THEN BOOLEAN ELSE {FALSE}

UpdateAsked(s2) == IF s2.TrackingEnabled THEN UpdateResults ELSE {NoUpdate}

RecoveryAsked(s2, upd) ==
    IF /\ s2.TrackingEnabled
       /\ ~upd.ok
       /\ ~GiveUp(s2.TrackingFailureCount + 1)
       /\ ~Empty(s2.LastKnownRect)
    THEN BOOLEAN ELSE {FALSE}

\* none of ActiveTracking, AutoSearching, ManualSelecting
Idle(st) == ~st.TrackingEnabled /\ ~st.AutoTrackingEnabled /\ ~st.ROISelectionMode

\* the calls of a tick: at most one Tracker.Update; a Tracker.Init of the
\* auto-detection comes first, the one of the recovery follows the Update
HasUpdate(cs) == \E i \in 1..Len(cs) : cs[i].op = "Update"
UpdateOf(cs) == cs[CHOOSE i \in 1..Len(cs) : cs[i].op = "Update"]
UpdateIndex(cs) == CHOOSE i \in 1..Len(cs) : cs[i].op = "Update"
AutoInit(cs) == Len(cs) > 0 /\ cs[1].op = "Init"

\* the consecutive failed updates on the target now tracked, after a tick
\* that made the calls cs: an acquisition begins a new run, a successful
\* update ends the run, a failed one adds to it (counted up to
\* MaxTrackingFailures); without an update no target is tracked
FailedRunAfter(run, cs) ==
    LET base == IF AutoInit(cs) /\ cs[1].ok THEN 0 ELSE run
    IN  IF ~HasUpdate(cs) \/ UpdateOf(cs).ok THEN 0
        ELSE IF base < MaxTrackingFailures THEN base + 1 ELSE base

\* the kind and the answer of the last Tracker.Init among the calls cs, or
\* last if there is none
LastInitAfter(last, cs) ==
    LET inits == {i \in 1..Len(cs) : cs[i].op = "Init"}
    IN  IF inits = {} THEN last
        ELSE LET i == CHOOSE j \in inits : \A k \in inits : k <= j
             IN  IF \E k \in 1..(i - 1) : cs[k].op = "Update"
                 THEN (IF cs[i].ok THEN "recovered" ELSE "recovery failed")
                 ELSE (IF cs[i].ok THEN "acquired" ELSE "acquisition failed")

\* whether the last acquisition (the Tracker.Init of the auto-detection or
\* of ENTER, the first call of its step) succeeded
LastAcquireAfter(last, cs) == IF AutoInit(cs) THEN cs[1].ok ELSE last

\* what the last Tracker.Init was when the tick called Tracker.Update
InitAtUpdateOf(last, cs) ==
    IF HasUpdate(cs)
    THEN LastInitAfter(last, SubSeq(cs, 1, UpdateIndex(cs) - 1))
    ELSE "none"

\* History kept for the properties of SpecHistory, SpecRun and SpecProtocol
\* (no history is kept while hist is NoHistory); cs are the calls of the
\* tick.  SpecHistory: after a tick, IdleBefore tells whether the tick began
\* in Idle; a key clears it.  SpecRun: FailedRun.  SpecProtocol: LastInit,
\* LastAcquireOk and, after a tick that called Tracker.Update, InitAtUpdate.
NoteTick(h, st, cs) ==
    IF h.stage = "on" THEN [h EXCEPT !.IdleBefore = Idle(st)]
    ELSE IF h.stage = "run" THEN [h EXCEPT !.FailedRun = FailedRunAfter(@, cs)]
    ELSE IF h.stage = "init"
    THEN [h EXCEPT !.LastInit = LastInitAfter(@, cs),
                   !.LastAcquireOk = LastAcquireAfter(@, cs),
                   !.InitAtUpdate = InitAtUpdateOf(h.LastInit, cs)]
    ELSE h

\* From the key that begins a selection to the key after the one that ends
\* it, AutoOffBefore tells whether AutoTrackingEnabled was false at the
\* moment the selection began.
\* SpecRun: a key that leaves the target tracked leaves its run; any other
\* key leaves no run.  SpecProtocol: the Tracker.Init of ENTER is an
\* acquisition.
NoteKey(h, st, new, cs) ==
    IF h.stage = "on"
    THEN [h EXCEPT !.AutoOffBefore =
                       IF st.ROISelectionMode THEN @
                       ELSE IF new.ROISelectionMode THEN ~st.AutoTrackingEnabled
                       ELSE FALSE,
                   !.IdleBefore = FALSE]
    ELSE IF h.stage = "run"
    THEN [h EXCEPT !.FailedRun = IF st.TrackingEnabled /\ new.TrackingEnabled THEN @ ELSE 0]
    ELSE IF h.stage = "init"
    THEN [h EXCEPT !.LastInit = LastInitAfter(@, cs),
                   !.LastAcquireOk = LastAcquireAfter(@, cs),
                   !.InitAtUpdate = InitAtUpdateOf(h.LastInit, cs)]
    ELSE h

FrameTick ==
    /\ pc = "frame"
    /\ state.FrameCount < MaxFrameCount
    /\ LET s0 == [state EXCEPT !.FrameCount = @ + 1]
       IN  \E contours \in ContoursAsked(s0) :
           \E initOk \in InitAsked(s0, contours) :
              LET s2 == DefaultFallback(ProcessAutoTracking(s0, contours, initOk).st)
              IN  \E upd \in UpdateAsked(s2) :
                  \E recOk \in RecoveryAsked(s2, upd) :
                     LET f == FrameStep(state, contours, initOk, upd, recOk)
                     IN  /\ state' = f.st
                         /\ trackingRect' = f.rect
                         /\ calls' = f.calls
    /\ pc' = "input"
    /\ hist' = NoteTick(hist, state, calls')
    /\ UNCHANGED <<cb, det, logger>>

\* the key WaitKey returned is handed to ProcessInput; trackingRect is local
\* to the loop body and is gone when the body ends
Press(key, initOk) ==
    /\ pc = "input"
    /\ LET r == ProcessInput(key, state, initOk)
       IN  /\ state' = r.st
           /\ calls' = r.calls
           /\ hist' = NoteKey(hist, state, r.st, r.calls)
           /\ pc' = IF r.quit THEN "quit" ELSE "frame"
    /\ trackingRect' = ZR
    /\ UNCHANGED <<cb, det, logger>>

\* the nudge and resize keys pressed while the tracking state machine runs
NudgeKeys == {KeyRight}
ResizeKeys == {KeyMinus}

\* nudges and resizes count against the bound MaxAdjust
Adjust(key) ==
    /\ state.Adjusts < MaxAdjust
    /\ pc = "input"
    /\ LET r == ProcessInput(key, state, FALSE)
       IN  /\ state' = [r.st EXCEPT !.Adjusts = @ + 1]
           /\ calls' = r.calls
           /\ hist' = NoteKey(hist, state, r.st, r.calls)
           /\ pc' = "frame"
    /\ trackingRect' = ZR
    /\ UNCHANGED <<cb, det, logger>>

NoKey == Press(KeyNone, FALSE)
PressEscape == Press(KeyEsc, FALSE)
PressQuit == Press(KeyQ, FALSE)
PressSelect == Press(KeyS, FALSE)
PressAuto == Press(KeyA, FALSE)
PressReset == Press(KeyR, FALSE)
PressEnter == \E initOk \in BOOLEAN : Press(KeyEnter, initOk)
PressNudge == \E key \in NudgeKeys : Adjust(key)
PressResize == \E key \in ResizeKeys : Adjust(key)

Next ==
    \/ FrameTick
    \/ NoKey
    \/ PressEscape
    \/ PressQuit
    \/ PressSelect
    \/ PressAuto
    \/ PressReset
    \/ PressEnter
    \/ PressNudge
    \/ PressResize

Spec == Init /\ [][Next]_vars

----------------------------------------------------------------------------
(* ConstrainBoundingBox on its own: the arguments are drawn from bounded    *)
(* sets, the function is applied once and then again to its own result.    *)

CbSmall == 2                      \* widths and heights 0..CbSmall are among the inputs

CbCorners == {-30, 0, 100, 600}
CbSizes == (0..CbSmall) \cup {39, 40, 41, 101, 200, 700}
CbInitialSizes == {0, 20, 50, 560}
CbGrowths == {<<2, 1>>, <<3, 2>>}
CbMinSizes == {40, 36}
CbFrames == {<<640, 480>>, <<160, 120>>}

CbArgs ==
    {[stage |-> "args",
      rect |-> Rect(x, y, x + w, y + h),
      initialSize |-> i, maxGrowth |-> g, minSize |-> m,
      imgWidth |-> f[1], imgHeight |-> f[2],
      out |-> ZR, out2 |-> ZR] :
        x \in CbCorners, y \in {0, 100}, w \in CbSizes, h \in {40, 41, 200, 500},
        i \in CbInitialSizes, g \in CbGrowths, m \in CbMinSizes, f \in CbFrames}

InitConstrain ==
    /\ state = InitialState
    /\ trackingRect = ZR
    /\ calls = <<>>
    /\ pc = "cb"
    /\ cb \in CbArgs
    /\ det = NoDetect
    /\ logger = NoLogger
    /\ hist = NoHistory

ConstrainOnce ==
    /\ pc = "cb"
    /\ cb.stage = "args"
    /\ cb' = [cb EXCEPT !.stage = "once",
                        !.out = ConstrainBoundingBox(cb.rect, cb.initialSize, cb.maxGrowth,
                                                     cb.minSize, cb.imgWidth, cb.imgHeight)]
    /\ UNCHANGED <<state, trackingRect, calls, pc, det, logger, hist>>

ConstrainAgain ==
    /\ pc = "cb"
    /\ cb.stage = "once"
    /\ cb' = [cb EXCEPT !.stage = "twice",
                        !.out2 = ConstrainBoundingBox(cb.out, cb.initialSize, cb.maxGrowth,
                                                      cb.minSize, cb.imgWidth, cb.imgHeight)]
    /\ UNCHANGED <<state, trackingRect, calls, pc, det, logger, hist>>

NextConstrain ==
    \/ ConstrainOnce
    \/ ConstrainAgain

SpecConstrain == InitConstrain /\ [][NextConstrain]_vars

----------------------------------------------------------------------------
(* The main loop with its history: the ticks and the keys that change the   *)
(* mode of the session ('s', 'a', 'r', ESC, ENTER, 'q'), without nudges and *)
(* resizes, which have no part in the modes.                                *)

InitialHistory == [stage |-> "on", AutoOffBefore |-> FALSE, IdleBefore |-> FALSE]

InitHistory ==
    /\ state = InitialState
    /\ trackingRect = ZR
    /\ calls = <<>>
    /\ pc = "frame"
    /\ cb = NoConstrain
    /\ det = NoDetect
    /\ logger = NoLogger
    /\ hist = InitialHistory

NextHistory ==
    \/ FrameTick
    \/ NoKey
    \/ PressEscape
    \/ PressQuit
    \/ PressSelect
    \/ PressAuto
    \/ PressReset
    \/ PressEnter

SpecHistory == InitHistory /\ [][NextHistory]_vars

\* the same loop, keeping the run of failed updates on the tracked target
InitialRun == [stage |-> "run", FailedRun |-> 0]

InitRun ==
    /\ state = InitialState
    /\ trackingRect = ZR
    /\ calls = <<>>
    /\ pc = "frame"
    /\ cb = NoConstrain
    /\ det = NoDetect
    /\ logger = NoLogger
    /\ hist = InitialRun

SpecRun == InitRun /\ [][NextHistory]_vars

\* the same loop, keeping the last Tracker.Init call
InitialProtocol ==
    [stage |-> "init", LastInit |-> "none", LastAcquireOk |-> FALSE,
     InitAtUpdate |-> "none"]

InitProtocol ==
    /\ state = InitialState
    /\ trackingRect = ZR
    /\ calls = <<>>
    /\ pc = "frame"
    /\ cb = NoConstrain
    /\ det = NoDetect
    /\ logger = NoLogger
    /\ hist = InitialProtocol

SpecProtocol == InitProtocol /\ [][NextHistory]_vars

----------------------------------------------------------------------------
(* The selection on its own: the main loop with every nudge and resize key, *)
(* 's', ESC, 'r' and a failing ENTER, on the frames before the warm-up ends *)
(* (no detection, no tracking), so that the geometry of the selection is    *)
(* explored as far as the keys can take it.                                 *)

MaxSelectFrames == 12             \* a tick is taken only while FrameCount is below this

SelectKeys ==
    {KeyNone, KeyS, KeyEsc, KeyR, KeyEnter,
     KeyUp, KeyDown, KeyLeft, KeyRight, KeyPlus, KeyEquals, KeyMinus, KeyUnderscore}

SelectTick ==
    /\ state.FrameCount < MaxSelectFrames
    /\ FrameTick

SelectKey == \E key \in SelectKeys : Press(key, FALSE)

NextSelect ==
    \/ SelectTick
    \/ SelectKey

SpecSelect == Init /\ [][NextSelect]_vars

----------------------------------------------------------------------------
(* Auto-detection on its own: ProcessAutoTracking is applied to a session   *)
(* past the warm-up in AutoSearching, on contours drawn from bounded sets.  *)

MaxDetContours == 3               \* contours of the tick in SpecDetect

\* areas below, at and above MinContourArea; bounding rectangles inside the
\* frame, one of them closer than the padding to its borders
DetAreas == {100, 500, 550, 600}
DetRects == {Rect(50, 40, 90, 70), Rect(5, 10, 150, 115)}
DetContours == {[area |-> a, rect |-> r] : a \in DetAreas, r \in DetRects}
DetContourSeqs == UNION {[1..n -> DetContours] : n \in 0..MaxDetContours}

\* AutoSearching on the first tick after the warm-up
SearchingState == [InitialState EXCEPT !.FrameCount = StabilizationFrames + 1]

DetArgs ==
    {[stage |-> "args", contours |-> cs, initOk |-> ok,
      idx |-> 0, st |-> SearchingState, calls |-> <<>>] :
        cs \in DetContourSeqs, ok \in BOOLEAN}

InitDetect ==
    /\ state = InitialState
    /\ trackingRect = ZR
    /\ calls = <<>>
    /\ pc = "det"
    /\ cb = NoConstrain
    /\ det \in DetArgs
    /\ logger = NoLogger
    /\ hist = NoHistory

Detect ==
    /\ pc = "det"
    /\ det.stage = "args"
    /\ LET a == ProcessAutoTracking(SearchingState, det.contours, det.initOk)
       IN  det' = [det EXCEPT !.stage = "done",
                              !.idx = LargestContour(det.contours, 1, 0, 0),
                              !.st = a.st,
                              !.calls = a.calls]
    /\ UNCHANGED <<state, trackingRect, calls, pc, cb, logger, hist>>

NextDetect == Detect

SpecDetect == InitDetect /\ [][NextDetect]_vars

----------------------------------------------------------------------------
(* The debug logger on its own: key 'd' toggles DebugMode and logs that it  *)
(* did, and Log is called with messages drawn from a small set.             *)

MaxLogged == 12                   \* messages appended in one run

\* variant: on overflow the newest message is dropped
LoggerLogDropsNewest(lg, message) ==
    IF ~lg.DebugMode THEN lg
    ELSE LET logs == Append(lg.DebugLogs, message)
         IN  [lg EXCEPT !.DebugLogs =
                 IF Len(logs) > MaxDebugLogs THEN SubSeq(logs, 1, MaxDebugLogs) ELSE logs]

\* DebugLogger.Log (maxLogs is DefaultUIConfig.MaxDebugLogs)
LoggerLog(lg, message) ==
    IF ~lg.DebugMode THEN lg
    ELSE LET logs == Append(lg.DebugLogs, message)
         IN  [lg EXCEPT !.DebugLogs =
                 IF Len(logs) > MaxDebugLogs THEN Tail(logs) ELSE logs]

\* the logger after construction; appended is the history of the messages
\* Log was called with while DebugMode was on
InitialLogger ==
    [stage |-> "on", DebugMode |-> FALSE, DebugLogs |-> <<>>, appended |-> <<>>]

InitLog ==
    /\ state = InitialState
    /\ trackingRect = ZR
    /\ calls = <<>>
    /\ pc = "log"
    /\ cb = NoConstrain
    /\ det = NoDetect
    /\ logger = InitialLogger
    /\ hist = NoHistory

\* what case 'd' of HandleMainKeys logs after it has set DebugMode
DebugEnabledMessage == "Debug mode enabled - logs will appear on screen"
DebugDisabledMessage == "Debug mode disabled"

ToggleMessage(debugMode) ==
    IF debugMode THEN DebugEnabledMessage ELSE DebugDisabledMessage

\* A line handed to DebugLogger.Write: the timestamp package log puts in
\* front ("" when the line has none), a space, the text, a newline.
Stamp == "2006/01/02 15:04:05"
LogLine(stamp, text) == [stamp |-> stamp, text |-> text]

\* Write: strings.TrimSpace of the line, then the removal of the timestamp
\* prefix, which is tested on lines longer than the 19 characters of the
\* timestamp only.  A blank text leaves the timestamp alone (or nothing),
\* any other text is left without its timestamp.
WrittenMessage(line) == IF line.text = "" THEN line.stamp ELSE line.text

\* DebugLogger.Write, the output of package log since SetAsLogOutput: with
\* DebugMode on it hands the message of the line to Log unless it is empty
LoggerWrite(lg, line) ==
    IF lg.DebugMode /\ WrittenMessage(line) # ""
    THEN LoggerLog(lg, WrittenMessage(line))
    ELSE lg

\* case 'd' of HandleMainKeys: DebugMode is flipped, then the message is
\* logged through Write, which sees the new DebugMode
ToggleDebug ==
    /\ pc = "log"
    /\ logger.DebugMode \/ Len(logger.appended) < MaxLogged
    /\ LET lg == [logger EXCEPT !.DebugMode = ~@]
           message == ToggleMessage(lg.DebugMode)
       IN  logger' = [LoggerWrite(lg, LogLine(Stamp, message)) EXCEPT
                         !.appended = IF lg.DebugMode THEN Append(@, message) ELSE @]
    /\ UNCHANGED <<state, trackingRect, calls, pc, cb, det, hist>>

\* the messages Log is called with and the lines Write is called with in
\* the runs of SpecLog: with and without timestamp, with and without text
SeqMessages == {"m1"}
SeqLines == {LogLine(stamp, text) : stamp \in {"", Stamp}, text \in {""} \cup SeqMessages}

LogCall ==
    /\ pc = "log"
    /\ Len(logger.appended) < MaxLogged
    /\ \E message \in SeqMessages :
          logger' = [LoggerLog(logger, message) EXCEPT
                        !.appended = IF logger.DebugMode THEN Append(@, message) ELSE @]
    /\ UNCHANGED <<state, trackingRect, calls, pc, cb, det, hist>>

\* a line of package log, or of another writer, arrives at Write
WriteCall ==
    /\ pc = "log"
    /\ Len(logger.appended) < MaxLogged
    /\ \E line \in SeqLines :
          logger' = [LoggerWrite(logger, line) EXCEPT
                        !.appended = IF logger.DebugMode /\ WrittenMessage(line) # ""
                                     THEN Append(@, WrittenMessage(line)) ELSE @]
    /\ UNCHANGED <<state, trackingRect, calls, pc, cb, det, hist>>

NextLog ==
    \/ ToggleDebug
    \/ LogCall
    \/ WriteCall

SpecLog == InitLog /\ [][NextLog]_vars

----------------------------------------------------------------------------
(* The debug logger under concurrency: processes call Log, Write, GetLogs   *)
(* and DrawDebugLogs and handle key 'd' at the same time, one statement of  *)
(* the code, and one access of the shared fields, per step.                 *)
(* The run starts with DebugMode on and the buffer one message short of     *)
(* maxLogs, so that the calls of the run overflow it.                       *)

MaxConcLogged == 3                \* Log calls, Write calls and keys 'd' started in one run

Procs == {1, 2, 3}

\* the messages Log is called with, none of them in the initial buffer, so
\* that every append changes the content, and the lines Write is called with
\* directly; the lines of key 'd' are built in ToggleDebugConc
Messages == {"m2"}
ConcLines == {LogLine(Stamp, ""), LogLine("", "")}

\* the statements of a process that touch DebugLogs
CriticalPcs == {"L429", "L429w", "L430", "L433", "G440", "G441", "G443"}

\* the statements of a process that take DebugLogMutex
LockPcs == {"L426", "G437"}

\* variant: a Lock that excludes nobody
MutexAlwaysFree(lg) == TRUE

\* sync.Mutex.Lock returns only when nobody holds the mutex
MutexFree(lg) == lg.mutex = 0

IdleProc ==
    [pc |-> "idle", op |-> "none", msg |-> "", logs |-> <<>>, n |-> 0, flag |-> FALSE]

InitialConcLogger ==
    [stage |-> "conc",
     DebugMode |-> TRUE,
     DebugLogs |-> [i \in 1..(MaxDebugLogs - 1) |-> "m1"],
     appended |-> [i \in 1..(MaxDebugLogs - 1) |-> "m1"],
     mutex |-> 0,
     started |-> 0,
     proc |-> [p \in Procs |-> IdleProc]]

InitLogConc ==
    /\ state = InitialState
    /\ trackingRect = ZR
    /\ calls = <<>>
    /\ pc = "log"
    /\ cb = NoConstrain
    /\ det = NoDetect
    /\ logger = InitialConcLogger
    /\ hist = NoHistory

\* a step of the concurrent logger: process p moves to the record r, the
\* rest of the logger becoming lg
LoggerRuns ==
    /\ pc = "log"
    /\ logger.stage = "conc"
    /\ UNCHANGED <<state, trackingRect, calls, pc, cb, det, hist>>

Goes(lg, p, r) == logger' = [lg EXCEPT !.proc[p] = r]

\* a process calls Log or Write with a message, GetLogs or DrawDebugLogs
CallLogger(p) ==
    /\ LoggerRuns
    /\ logger.proc[p].pc = "idle"
    /\ \/ /\ logger.started < MaxConcLogged
          /\ \/ \E message \in Messages :
                   Goes([logger EXCEPT !.started = @ + 1], p,
                        [IdleProc EXCEPT !.pc = "L422", !.op = "Log", !.msg = message])
             \/ \E line \in ConcLines :
                   Goes([logger EXCEPT !.started = @ + 1], p,
                        [IdleProc EXCEPT !.pc = "W453", !.op = "Write",
                                         !.msg = WrittenMessage(line)])
       \/ Goes(logger, p, [IdleProc EXCEPT !.pc = "G437", !.op = "GetLogs"])
       \/ Goes(logger, p, [IdleProc EXCEPT !.pc = "D416", !.op = "DrawDebugLogs"])

\* Write: "if d.state.DebugMode", then (msg is the message of the line
\* already) "if message != \"\"", then d.Log(message)
WriteStep(p) ==
    LET r == logger.proc[p]
    IN  /\ LoggerRuns
        /\ \/ /\ r.pc = "W453"
              /\ Goes(logger, p,
                      IF logger.DebugMode THEN [r EXCEPT !.pc = "W462"] ELSE IdleProc)
           \/ /\ r.pc = "W462"
              /\ Goes(logger, p,
                      IF r.msg # "" THEN [r EXCEPT !.pc = "L422"] ELSE IdleProc)

\* Log, one statement per step: the test of DebugMode, Lock, append (the
\* buffer is read, then written), the eviction, the deferred Unlock
LogStep(p) ==
    LET r == logger.proc[p]
    IN  /\ LoggerRuns
        /\ \/ /\ r.pc = "L422"
              /\ Goes(logger, p, IF logger.DebugMode THEN [r EXCEPT !.pc = "L426"] ELSE IdleProc)
           \/ /\ r.pc = "L426"
              /\ MutexFree(logger)
              /\ Goes([logger EXCEPT !.mutex = p], p, [r EXCEPT !.pc = "L429"])
           \/ /\ r.pc = "L429"
              /\ Goes(logger, p, [r EXCEPT !.pc = "L429w", !.logs = logger.DebugLogs])
           \/ /\ r.pc = "L429w"
              /\ Goes([logger EXCEPT !.DebugLogs = Append(r.logs, r.msg),
                                     !.appended = Append(@, r.msg)],
                      p, [r EXCEPT !.pc = "L430", !.logs = <<>>])
           \/ /\ r.pc = "L430"
              /\ Goes([logger EXCEPT !.DebugLogs =
                           IF Len(@) > MaxDebugLogs THEN Tail(@) ELSE @],
                      p, [r EXCEPT !.pc = "L433"])
           \/ /\ r.pc = "L433"
              /\ Goes([logger EXCEPT !.mutex = 0], p, IdleProc)

\* GetLogs and the copy of DrawDebugLogs: the test of DebugMode (DrawDebugLogs
\* only), Lock, make, copy, Unlock
ReadStep(p) ==
    LET r == logger.proc[p]
    IN  /\ LoggerRuns
        /\ \/ /\ r.pc = "D416"
              /\ Goes(logger, p, IF logger.DebugMode THEN [r EXCEPT !.pc = "G437"] ELSE IdleProc)
           \/ /\ r.pc = "G437"
              /\ MutexFree(logger)
              /\ Goes([logger EXCEPT !.mutex = p], p, [r EXCEPT !.pc = "G440"])
           \/ /\ r.pc = "G440"
              /\ Goes(logger, p, [r EXCEPT !.pc = "G441", !.n = Len(logger.DebugLogs)])
           \/ /\ r.pc = "G441"
              /\ Goes(logger, p,
                      [r EXCEPT !.pc = "G443",
                                !.logs = SubSeq(logger.DebugLogs, 1,
                                                Min2(r.n, Len(logger.DebugLogs)))])
           \/ /\ r.pc = "G443"
              /\ Goes([logger EXCEPT !.mutex = 0], p, IdleProc)

\* case 'd' of HandleMainKeys, one access of DebugMode per step and none
\* of them under the lock: "state.DebugMode = !state.DebugMode" reads
\* DebugMode, then writes the negation of what it read; "if state.DebugMode"
\* reads it again to choose the message; log.Println then enters Write with
\* the timestamped line
ToggleDebugConc(p) ==
    LET r == logger.proc[p]
    IN  /\ LoggerRuns
        /\ \/ /\ r.pc = "idle"
              /\ logger.started < MaxConcLogged
              /\ Goes([logger EXCEPT !.started = @ + 1], p,
                      [IdleProc EXCEPT !.pc = "T72", !.op = "Toggle"])
           \/ /\ r.pc = "T72"
              /\ Goes(logger, p, [r EXCEPT !.pc = "T72w", !.flag = logger.DebugMode])
           \/ /\ r.pc = "T72w"
              /\ Goes([logger EXCEPT !.DebugMode = ~r.flag], p,
                      [r EXCEPT !.pc = "T73", !.flag = FALSE])
           \/ /\ r.pc = "T73"
              /\ Goes(logger, p,
                      [r EXCEPT !.pc = "W453",
                                !.msg = WrittenMessage(LogLine(Stamp,
                                            ToggleMessage(logger.DebugMode)))])

NextLogConc ==
    \/ \E p \in Procs : CallLogger(p)
    \/ \E p \in Procs : WriteStep(p)
    \/ \E p \in Procs : LogStep(p)
    \/ \E p \in Procs : ReadStep(p)
    \/ \E p \in Procs : ToggleDebugConc(p)

SpecLogConc == InitLogConc /\ [][NextLogConc]_vars

----------------------------------------------------------------------------
(* Properties of the tracking state machine (specification Spec)           *)

TickStep == pc = "frame" /\ pc' = "input"

\* the ratio of the sizes is above the threshold or below its reciprocal
RatioOutside(newRect, oldRect) ==
    \/ RectSize(newRect) > SizeChangeThreshold * RectSize(oldRect)
    \/ SizeChangeThreshold * RectSize(newRect) < RectSize(oldRect)

\* C1: at most one of TrackingEnabled, AutoTrackingEnabled and
\* ROISelectionMode is true in every reachable state.
C1_ModeExclusive ==
    /\ ~(state.TrackingEnabled /\ state.AutoTrackingEnabled)
    /\ ~(state.TrackingEnabled /\ state.ROISelectionMode)
    /\ ~(state.AutoTrackingEnabled /\ state.ROISelectionMode)

\* tracking was started from a selection that was adjusted, after the warm-up
C1_Witness ==
    /\ pc = "input"
    /\ state.TrackingEnabled
    /\ state.Adjusts > 0
    /\ state.FrameCount > StabilizationFrames

\* C2: a tick whose tracker update fails with the incremented counter at
\* MaxTrackingFailures ends in AutoSearching with the counter 0 and returns
\* the empty rectangle.
C2_GiveUp ==
    [][(/\ TickStep
        /\ HasUpdate(calls')
        /\ ~UpdateOf(calls').ok
        /\ state.TrackingFailureCount + 1 >= MaxTrackingFailures)
       => (/\ ~state'.TrackingEnabled
           /\ state'.AutoTrackingEnabled
           /\ ~state'.ROISelectionMode
           /\ state'.TrackingFailureCount = 0
           /\ trackingRect' = ZR)]_vars

\* the tick that gave up: a failed update and tracking is off afterwards
C2_Witness ==
    /\ pc = "input"
    /\ HasUpdate(calls)
    /\ ~UpdateOf(calls).ok
    /\ ~state.TrackingEnabled
    /\ state.AutoTrackingEnabled
    /\ state.TrackingFailureCount = 0
    /\ ~Empty(state.LastKnownRect)

\* a tick whose update succeeded with a size ratio outside the threshold
DriftTick ==
    /\ TickStep
    /\ HasUpdate(calls')
    /\ UpdateOf(calls').ok
    /\ ~Empty(state.LastKnownRect)
    /\ RatioOutside(UpdateOf(calls').rect, state.LastKnownRect)

\* C3 as claimed: a suspected-drift tick keeps LastKnownRect, returns it,
\* stays in ActiveTracking and leaves the failure counter one higher than
\* it was before the tick.
C3_DriftIncrements ==
    [][DriftTick
       => (/\ state'.LastKnownRect = state.LastKnownRect
           /\ trackingRect' = state.LastKnownRect
           /\ state'.TrackingEnabled
           /\ state'.TrackingFailureCount = state.TrackingFailureCount + 1)]_vars

\* C3 amended: a suspected-drift tick keeps LastKnownRect, returns it, stays
\* in ActiveTracking and leaves the failure counter at 1 (the successful
\* update resets it to 0 before the increment).
C3_DriftCountsOne ==
    [][DriftTick
       => (/\ state'.LastKnownRect = state.LastKnownRect
           /\ trackingRect' = state.LastKnownRect
           /\ state'.TrackingEnabled
           /\ state'.TrackingFailureCount = 1)]_vars

\* after a suspected-drift tick
C3_Witness ==
    /\ pc = "input"
    /\ HasUpdate(calls)
    /\ UpdateOf(calls).ok
    /\ ~Empty(state.LastKnownRect)
    /\ RatioOutside(UpdateOf(calls).rect, state.LastKnownRect)
    /\ trackingRect = state.LastKnownRect
    /\ state.TrackingFailureCount = 1
    /\ state.TrackingEnabled

\* C4: 's' outside selection enters ManualSelecting with the two other flags
\* off, and a tick in ManualSelecting changes nothing but FrameCount, calls
\* the tracker not at all and returns the empty rectangle.
C4_SelectionSuspends ==
    [][/\ (PressSelect /\ ~state.ROISelectionMode)
            => (/\ state'.ROISelectionMode
                /\ ~state'.TrackingEnabled
                /\ ~state'.AutoTrackingEnabled)
       /\ (TickStep /\ state.ROISelectionMode)
            => (/\ state' = [state EXCEPT !.FrameCount = @ + 1]
                /\ calls' = <<>>
                /\ trackingRect' = ZR)]_vars

\* a tick taken in ManualSelecting, after the warm-up, with a tracking
\* history to preserve
C4_Witness ==
    /\ pc = "input"
    /\ state.ROISelectionMode
    /\ state.FrameCount > StabilizationFrames
    /\ ~Empty(state.LastKnownRect)
    /\ state.TrackingFailureCount > 0

\* C5 as claimed: right after a successful tracker initialization, by ENTER
\* or by auto-detection, the failure counter is 0.
C5_CounterClearedOnAcquire ==
    [][/\ (pc = "input" /\ state.ROISelectionMode /\ state'.TrackingEnabled)
            => state'.TrackingFailureCount = 0
       /\ pc = "frame"
            => \A contours \in ContourSeqs :
                 LET a == ProcessAutoTracking([state EXCEPT !.FrameCount = @ + 1],
                                              contours, TRUE).st
                 IN  (~state.TrackingEnabled /\ a.TrackingEnabled)
                        => a.TrackingFailureCount = 0]_vars

\* C6 as claimed: after the tick that gives up, LastKnownRect is empty.
C6_LastKnownCleared ==
    (/\ pc = "input"
     /\ HasUpdate(calls)
     /\ ~UpdateOf(calls).ok
     /\ ~state.TrackingEnabled)
    => Empty(state.LastKnownRect)

\* C7 as claimed: after a tick the returned rectangle is non-empty exactly
\* when the session is in ActiveTracking.
C7_RegionIffTracking ==
    pc = "input" => (~Empty(trackingRect) <=> state.TrackingEnabled)

\* C7 amended: after a tick the returned rectangle is non-empty exactly when
\* the session is in ActiveTracking, except that a failed update with an
\* empty LastKnownRect returns the empty rectangle while ActiveTracking.
C7_RegionIffTrackingWithRect ==
    pc = "input"
    => (~Empty(trackingRect)
          <=> (/\ state.TrackingEnabled
               /\ ~(/\ HasUpdate(calls)
                    /\ ~UpdateOf(calls).ok
                    /\ Empty(state.LastKnownRect))))

\* ActiveTracking after a failed update with nothing to fall back on
C7_Witness ==
    /\ pc = "input"
    /\ state.TrackingEnabled
    /\ HasUpdate(calls)
    /\ ~UpdateOf(calls).ok
    /\ Empty(state.LastKnownRect)
    /\ Empty(trackingRect)

\* 'a' pressed with auto-tracking off outside selection enables it
EnablesAuto == PressAuto /\ ~state.ROISelectionMode /\ ~state.AutoTrackingEnabled

\* C12: FrameCount counts the ticks since the start or the last reset (it
\* grows by one on a tick, is 0 after 'r' and after 'a' enabling
\* auto-tracking, and no other key changes it), and the auto-detection
\* calls Tracker.Init only on a tick that began outside ActiveTracking and
\* ManualSelecting and whose count is greater than StabilizationFrames.
C12_Gating ==
    [][/\ TickStep => state'.FrameCount = state.FrameCount + 1
       /\ PressReset => state'.FrameCount = 0
       /\ EnablesAuto => state'.FrameCount = 0
       /\ (pc = "input" /\ ~PressReset /\ ~EnablesAuto)
            => state'.FrameCount = state.FrameCount
       /\ (TickStep /\ AutoInit(calls'))
            => (/\ ~state.TrackingEnabled
                /\ ~state.ROISelectionMode
                /\ state.FrameCount + 1 > StabilizationFrames)]_vars

\* auto-detection started the tracker on the first tick after the warm-up
C12_Witness ==
    /\ pc = "input"
    /\ AutoInit(calls)
    /\ calls[1].ok
    /\ state.TrackingEnabled
    /\ state.FrameCount = StabilizationFrames + 1

\* ESC pressed in ManualSelecting
Cancels == PressEscape /\ state.ROISelectionMode

\* C17 as claimed: cancelling leaves ManualSelecting, does not quit, and
\* AutoTrackingEnabled is again what it was when the selection began.
C17_CancelRestores ==
    [][Cancels
       => (/\ ~state'.ROISelectionMode
           /\ pc' = "frame"
           /\ state'.AutoTrackingEnabled = ~hist.AutoOffBefore)]_vars

\* C17 amended: cancelling leaves ManualSelecting, does not quit, and puts
\* the session in AutoSearching whatever was active when the selection
\* began; nothing else of the session changes.
C17_CancelSearches ==
    [][Cancels
       => (/\ ~state'.ROISelectionMode
           /\ pc' = "frame"
           /\ state'.AutoTrackingEnabled
           /\ ~state'.TrackingEnabled
           /\ state' = [state EXCEPT !.ROISelectionMode = FALSE,
                                     !.AutoTrackingEnabled = TRUE])]_vars

\* right after the cancel of a selection that began in ActiveTracking
C17_Witness ==
    /\ pc = "frame"
    /\ calls = <<>>
    /\ ~state.ROISelectionMode
    /\ hist.AutoOffBefore
    /\ state.AutoTrackingEnabled
    /\ ~state.TrackingEnabled
    /\ ~Empty(state.LastKnownRect)

\* ENTER pressed in ManualSelecting and Tracker.Init refused the rectangle
FailedConfirm ==
    /\ PressEnter
    /\ state.ROISelectionMode
    /\ Len(calls') = 1
    /\ ~calls'[1].ok

\* the selection rectangle cut at the frame
Finalized(st) ==
    [MinX |-> Max2(0, st.ROICenterX - st.ROIWidth \div 2),
     MinY |-> Max2(0, st.ROICenterY - st.ROIHeight \div 2),
     MaxX |-> Min2(FrameCols, st.ROICenterX + st.ROIWidth \div 2),
     MaxY |-> Min2(FrameRows, st.ROICenterY + st.ROIHeight \div 2)]

\* C18: when ENTER is pressed in ManualSelecting and Tracker.Init fails on
\* the finalized rectangle, the session leaves ManualSelecting without
\* entering ActiveTracking, InitialROISize and ROI are unchanged, and a tick
\* that begins in Idle ends in AutoSearching.
C18_FailedConfirm ==
    [][/\ FailedConfirm
            => (/\ calls'[1].op = "Init"
                /\ calls'[1].rect = Finalized(state)
                /\ ~state'.ROISelectionMode
                /\ ~state'.TrackingEnabled
                /\ state'.InitialROISize = state.InitialROISize
                /\ state'.ROI = state.ROI)
       /\ (TickStep /\ Idle(state))
            => (/\ state'.AutoTrackingEnabled
                /\ ~state'.TrackingEnabled
                /\ ~state'.ROISelectionMode)]_vars

\* right after a failed confirm in a session that tracked a target before
C18_Witness ==
    /\ pc = "frame"
    /\ Len(calls) = 1
    /\ calls[1].op = "Init"
    /\ ~calls[1].ok
    /\ Idle(state)
    /\ state.InitialROISize > 0
    /\ ~Empty(state.ROI)

ExactlyOneMode(st) ==
    \/ st.TrackingEnabled /\ ~st.AutoTrackingEnabled /\ ~st.ROISelectionMode
    \/ ~st.TrackingEnabled /\ st.AutoTrackingEnabled /\ ~st.ROISelectionMode
    \/ ~st.TrackingEnabled /\ ~st.AutoTrackingEnabled /\ st.ROISelectionMode

\* 'a' pressed in AutoSearching
DisablesAuto == PressAuto /\ ~state.ROISelectionMode /\ state.AutoTrackingEnabled

\* C19: at the end of every tick exactly one of ActiveTracking,
\* AutoSearching, ManualSelecting holds; 'a' in AutoSearching and a failed
\* confirm leave the session in Idle, and the tick after Idle ends in
\* AutoSearching.
C19_NoIdleAfterTick ==
    [][/\ TickStep => ExactlyOneMode(state')
       /\ (DisablesAuto \/ FailedConfirm) => Idle(state')
       /\ (TickStep /\ Idle(state)) => state'.AutoTrackingEnabled]_vars

\* the end of a tick that began in Idle
C19_Witness ==
    /\ pc = "input"
    /\ hist.IdleBefore
    /\ state.AutoTrackingEnabled
    /\ ~state.TrackingEnabled
    /\ ~state.ROISelectionMode

----------------------------------------------------------------------------
(* Properties of ConstrainBoundingBox (specification SpecConstrain)        *)

CbApplied == cb.stage \in {"once", "twice"}

\* the size one dimension is meant to get
CbWanted(current) ==
    LET cap == (cb.initialSize * cb.maxGrowth[1]) \div cb.maxGrowth[2]
    IN  Max2(cb.minSize, Min2(current, cap))

\* C8 as claimed: the result lies inside [0,W] x [0,H] and each of its
\* dimensions is in [minSize, max(minSize, initialSize*maxGrowth)].
C8_OutputBounds ==
    CbApplied
    => LET hi == Max2(cb.minSize, (cb.initialSize * cb.maxGrowth[1]) \div cb.maxGrowth[2])
       IN  /\ 0 <= cb.out.MinX /\ cb.out.MaxX <= cb.imgWidth
           /\ 0 <= cb.out.MinY /\ cb.out.MaxY <= cb.imgHeight
           /\ cb.minSize <= Dx(cb.out) /\ Dx(cb.out) <= hi
           /\ cb.minSize <= Dy(cb.out) /\ Dy(cb.out) <= hi

\* C9: ConstrainBoundingBox applied to its own result returns that result.
C9_Idempotent == cb.stage = "twice" => cb.out2 = cb.out

\* a second application to the result of a first one that changed the size
\* and moved the rectangle into the frame
C9_Witness ==
    /\ cb.stage = "twice"
    /\ Dx(cb.out) # Dx(cb.rect)
    /\ cb.rect.MinX < 0
    /\ cb.out.MinX = 0
    /\ cb.out2 = cb.out

\* C10: when a dimension is clamped and the rectangle of the new size around
\* the original centre lies in the frame, the result has the centre of the
\* input; with initialSize 50, maxGrowth 2.0, minSize 40 the 200x200 region
\* at (100,100) of a 640x480 frame becomes the 100x100 one at (150,150).
C10_Recentred ==
    CbApplied
    => LET cx == cb.rect.MinX + Dx(cb.rect) \div 2
           cy == cb.rect.MinY + Dy(cb.rect) \div 2
           nw == CbWanted(Dx(cb.rect))
           nh == CbWanted(Dy(cb.rect))
           clamped == nw # Dx(cb.rect) \/ nh # Dy(cb.rect)
           inFrame == /\ cx - nw \div 2 >= 0 /\ cx + nw \div 2 <= cb.imgWidth
                      /\ cy - nh \div 2 >= 0 /\ cy + nh \div 2 <= cb.imgHeight
       IN  /\ (clamped /\ inFrame)
                => (/\ cb.out.MinX + Dx(cb.out) \div 2 = cx
                    /\ cb.out.MinY + Dy(cb.out) \div 2 = cy)
           /\ (/\ cb.rect = Rect(100, 100, 300, 300)
               /\ cb.initialSize = 50 /\ cb.maxGrowth = <<2, 1>> /\ cb.minSize = 40
               /\ cb.imgWidth = 640 /\ cb.imgHeight = 480)
                => cb.out = Rect(150, 150, 250, 250)

\* the 200x200 region of the example, constrained
C10_Witness ==
    /\ cb.stage = "once"
    /\ cb.rect = Rect(100, 100, 300, 300)
    /\ cb.initialSize = 50 /\ cb.maxGrowth = <<2, 1>> /\ cb.minSize = 40
    /\ cb.imgWidth = 640 /\ cb.imgHeight = 480
    /\ cb.out = Rect(150, 150, 250, 250)

----------------------------------------------------------------------------
(* Properties of the selection (specification SpecSelect)                  *)

PressUp == Press(KeyUp, FALSE)
PressDown == Press(KeyDown, FALSE)
PressLeft == Press(KeyLeft, FALSE)
PressRight == Press(KeyRight, FALSE)
PressPlus == \E key \in {KeyPlus, KeyEquals} : Press(key, FALSE)
PressMinus == \E key \in {KeyMinus, KeyUnderscore} : Press(key, FALSE)

\* the selection rectangle (centre +/- half the size) lies in the frame
InFrameX(st) ==
    /\ st.ROICenterX - st.ROIWidth \div 2 >= 0
    /\ st.ROICenterX + st.ROIWidth \div 2 <= FrameCols

InFrameY(st) ==
    /\ st.ROICenterY - st.ROIHeight \div 2 >= 0
    /\ st.ROICenterY + st.ROIHeight \div 2 <= FrameRows

\* C13 as claimed: after a nudge in ManualSelecting the selection rectangle
\* lies in the frame on the nudged axis, whatever the position before it.
C13_NudgeInFrame ==
    [][/\ ((PressLeft \/ PressRight) /\ state.ROISelectionMode) => InFrameX(state')
       /\ ((PressUp \/ PressDown) /\ state.ROISelectionMode) => InFrameY(state')]_vars

\* C14 as claimed: in ManualSelecting the selection rectangle lies in the
\* frame on both axes.
C14_SelectionInFrame ==
    state.ROISelectionMode => (InFrameX(state) /\ InFrameY(state))

\* C15: after every step the selection width is in [40, FrameCols] and the
\* height in [40, FrameRows]; '+' adds 20 to both and '-' takes 20 from
\* both, up to these limits.
C15_SizeBounds ==
    [][/\ 40 <= state'.ROIWidth /\ state'.ROIWidth <= FrameCols
       /\ 40 <= state'.ROIHeight /\ state'.ROIHeight <= FrameRows
       /\ (PressPlus /\ state.ROISelectionMode)
            => (/\ state'.ROIWidth = Min2(state.ROIWidth + 20, FrameCols)
                /\ state'.ROIHeight = Min2(state.ROIHeight + 20, FrameRows))
       /\ (PressMinus /\ state.ROISelectionMode)
            => (/\ state'.ROIWidth = Max2(state.ROIWidth - 20, 40)
                /\ state'.ROIHeight = Max2(state.ROIHeight - 20, 40))]_vars

\* grown until both dimensions stopped at the frame
C15_Witness ==
    /\ state.ROISelectionMode
    /\ pc = "frame"
    /\ state.ROIWidth = FrameCols
    /\ state.ROIHeight = FrameRows
    /\ state.ROIWidth # state.ROIHeight

\* C16 as claimed: 's' outside ManualSelecting puts the selection at the
\* centre of the frame with the starting size of InitializeROISelection.
C16_FreshSelection ==
    [][(PressSelect /\ ~state.ROISelectionMode)
       => (/\ state'.ROICenterX = FrameCols \div 2
           /\ state'.ROICenterY = FrameRows \div 2
           /\ state'.ROIWidth = InitialState.ROIWidth
           /\ state'.ROIHeight = InitialState.ROIHeight)]_vars

----------------------------------------------------------------------------
(* Properties of the auto-detection (specification SpecDetect)             *)

\* the contours whose area is strictly above the minimum
AboveMinArea(cs) == {i \in 1..Len(cs) : cs[i].area > MinContourArea}

\* a bounding rectangle grown by the padding on every side, cut at the frame
Expanded(r) ==
    [MinX |-> Max2(0, r.MinX - 20), MinY |-> Max2(0, r.MinY - 20),
     MaxX |-> Min2(FrameCols, r.MaxX + 20), MaxY |-> Min2(FrameRows, r.MaxY + 20)]

\* C11: the detector picks the contour of largest area among those strictly
\* above MinContourArea, the first one on a tie, none when no contour is
\* above it (areas 100, 600, 550 select the 600 one); the region handed to
\* the tracker is its bounding rectangle grown by 20 on every side and
\* clamped to the frame.
C11_LargestFirst ==
    det.stage = "done"
    => LET cs == det.contours
           above == AboveMinArea(cs)
       IN  /\ above = {} => (det.idx = 0 /\ det.calls = <<>>)
           /\ above # {}
                => (/\ det.idx \in above
                    /\ \A j \in above : cs[j].area <= cs[det.idx].area
                    /\ \A j \in above : j < det.idx => cs[j].area < cs[det.idx].area
                    /\ Len(det.calls) = 1
                    /\ det.calls[1].op = "Init"
                    /\ det.calls[1].rect = Expanded(cs[det.idx].rect))
           /\ (Len(cs) = 3 /\ cs[1].area = 100 /\ cs[2].area = 600 /\ cs[3].area = 550)
                => det.idx = 2

\* the example of the claim with a bounding rectangle that needs the clamp,
\* and the tracker started on the clamped candidate
C11_Witness ==
    /\ det.stage = "done"
    /\ Len(det.contours) = 3
    /\ det.contours[1].area = 100
    /\ det.contours[2].area = 600
    /\ det.contours[3].area = 550
    /\ det.contours[2].rect = Rect(5, 10, 150, 115)
    /\ det.idx = 2
    /\ det.st.TrackingEnabled
    /\ det.st.ROI = Rect(0, 0, 160, 120)

\* a tie between two contours above the minimum: the first one is selected
C11_TieWitness ==
    /\ det.stage = "done"
    /\ Len(det.contours) = 2
    /\ det.contours[1].area = 600
    /\ det.contours[2].area = 600
    /\ det.contours[1].rect # det.contours[2].rect
    /\ det.idx = 1

----------------------------------------------------------------------------
(* Properties of the debug logger (specification SpecLog)                  *)

\* the last n elements of a sequence (all of it when it is shorter)
LastOf(q, n) == SubSeq(q, Max2(1, Len(q) - n + 1), Len(q))

\* C20: the buffer holds at most 10 messages, and they are the most recent
\* messages appended, in the order they were appended.
C20_BoundedRecent ==
    logger.stage = "on"
    => (/\ Len(logger.DebugLogs) <= 10
        /\ logger.DebugLogs = LastOf(logger.appended, 10))

\* two messages were evicted, the oldest of them (the message of the first
\* 'd') different from the message that is now the first of the buffer (the
\* timestamp a line without text left); the newest message is the one of a
\* later 'd'
C20_Witness ==
    /\ logger.stage = "on"
    /\ Len(logger.appended) = 12
    /\ Len(logger.DebugLogs) = 10
    /\ logger.appended[1] = DebugEnabledMessage
    /\ logger.appended[2] = "m1"
    /\ logger.DebugLogs[1] = Stamp
    /\ logger.DebugLogs[10] = DebugEnabledMessage

----------------------------------------------------------------------------
(* Properties of the debug logger under concurrency (SpecLogConc)          *)

\* C21: every statement that touches the buffer runs with the mutex held by
\* its process; whenever the mutex is free the buffer is the last 10 of the
\* messages appended (none lost); the copy a reader has made is the buffer
\* of a moment when no append was half done; no process that is about to
\* take the mutex holds it.
C21_MutualExclusion ==
    logger.stage = "conc"
    => (/\ \A p \in Procs :
              logger.proc[p].pc \in CriticalPcs => logger.mutex = p
        /\ logger.mutex = 0
              => logger.DebugLogs = LastOf(logger.appended, 10)
        /\ \A p \in Procs :
              logger.proc[p].pc = "G443"
                 => (/\ Len(logger.proc[p].logs) <= 10
                     /\ logger.proc[p].logs = LastOf(logger.appended, 10))
        /\ \A p \in Procs :
              logger.proc[p].pc \in LockPcs => logger.mutex # p)

\* two keys 'd' raced on DebugMode and both logged "enabled" although
\* debug mode was on before them; a reader holds its copy of the buffer they
\* overflowed, while a logger that came through Write and another reader
\* wait for the mutex
C21_Witness ==
    /\ logger.stage = "conc"
    /\ Len(logger.appended) = MaxDebugLogs + 1
    /\ logger.appended[MaxDebugLogs] = DebugEnabledMessage
    /\ logger.appended[MaxDebugLogs + 1] = DebugEnabledMessage
    /\ \E p, q, w \in Procs :
          /\ logger.proc[p].pc = "G443"
          /\ logger.proc[p].op = "DrawDebugLogs"
          /\ Len(logger.proc[p].logs) = 10
          /\ logger.proc[p].logs[10] = DebugEnabledMessage
          /\ logger.proc[q].pc = "G437"
          /\ logger.proc[w].pc = "L426"
          /\ logger.proc[w].op = "Write"
          /\ p # q /\ p # w /\ q # w

----------------------------------------------------------------------------
(* Properties of the failure path of ProcessTracking (specification Spec)  *)

\* the Tracker.Init calls a tick made after its Tracker.Update call
RecoveryInits(cs) == {i \in (UpdateIndex(cs) + 1)..Len(cs) : cs[i].op = "Init"}

\* a tick whose tracker update failed
FailedUpdateTick ==
    /\ TickStep
    /\ HasUpdate(calls')
    /\ ~UpdateOf(calls').ok

\* InitialROISize as ProcessTracking finds it on this tick: the size stored
\* by an auto-detection that acquired the target on the same tick, else the
\* size the tick began with
SizeAtTracking ==
    IF ~state.TrackingEnabled /\ AutoInit(calls') /\ calls'[1].ok
    THEN RectSize(calls'[1].rect)
    ELSE state.InitialROISize

\* C22: on a tick whose update fails with the incremented counter below
\* MaxTrackingFailures and LastKnownRect non-empty, Tracker.Init is called
\* exactly once after the update, on the search window around LastKnownRect;
\* the tick returns LastKnownRect, stays in ActiveTracking, keeps
\* LastKnownRect and InitialROISize, and leaves the counter at 0 if that
\* Init succeeded and at its incremented value if not.  On the tick that
\* reaches the threshold, or with LastKnownRect empty, no Init follows the
\* update.
C22_RecoveryStep ==
    [][FailedUpdateTick
       => LET n == state.TrackingFailureCount + 1
              k == UpdateIndex(calls')
          IN  IF n < MaxTrackingFailures /\ ~Empty(state.LastKnownRect)
              THEN /\ Cardinality(RecoveryInits(calls')) = 1
                   /\ Len(calls') = k + 1
                   /\ calls'[k + 1].rect =
                          SearchRect(state.LastKnownRect, SearchRadius, FrameCols, FrameRows)
                   /\ trackingRect' = state.LastKnownRect
                   /\ state'.TrackingEnabled
                   /\ ~state'.AutoTrackingEnabled
                   /\ ~state'.ROISelectionMode
                   /\ state'.LastKnownRect = state.LastKnownRect
                   /\ state'.InitialROISize = SizeAtTracking
                   /\ state'.TrackingFailureCount = IF calls'[k + 1].ok THEN 0 ELSE n
              ELSE RecoveryInits(calls') = {}]_vars

\* after a tick whose update failed and whose recovery succeeded: the
\* counter is back at 0 and LastKnownRect was returned
C22_Witness ==
    /\ pc = "input"
    /\ Len(calls) = 2
    /\ calls[1].op = "Update"
    /\ ~calls[1].ok
    /\ calls[2].op = "Init"
    /\ calls[2].ok
    /\ state.TrackingEnabled
    /\ state.TrackingFailureCount = 0
    /\ ~Empty(state.LastKnownRect)
    /\ trackingRect = state.LastKnownRect

\* the session is in AutoSearching
AutoSearching(st) ==
    st.AutoTrackingEnabled /\ ~st.TrackingEnabled /\ ~st.ROISelectionMode

\* the calls of a tick that acquired nothing: no Tracker.Init at all (no
\* contour above MinContourArea), or one Tracker.Init that failed
NothingAcquired(cs) ==
    \/ cs = <<>>
    \/ Len(cs) = 1 /\ cs[1].op = "Init" /\ ~cs[1].ok

\* C23: a tick that begins in AutoSearching and acquires nothing - no
\* contour above MinContourArea, or Tracker.Init failing on the candidate -
\* ends in AutoSearching with ROI, InitialROISize, LastKnownRect and the
\* failure counter as they were, and returns no rectangle.
C23_FailedAcquireKeeps ==
    [][(TickStep /\ AutoSearching(state) /\ NothingAcquired(calls'))
       => (/\ AutoSearching(state')
           /\ state'.ROI = state.ROI
           /\ state'.InitialROISize = state.InitialROISize
           /\ state'.LastKnownRect = state.LastKnownRect
           /\ state'.TrackingFailureCount = state.TrackingFailureCount
           /\ state' = [state EXCEPT !.FrameCount = @ + 1]
           /\ trackingRect' = ZR)]_vars

\* after a tick on which Tracker.Init failed on the candidate, in a session
\* that tracked a target before
C23_Witness ==
    /\ pc = "input"
    /\ AutoSearching(state)
    /\ Len(calls) = 1
    /\ calls[1].op = "Init"
    /\ ~calls[1].ok
    /\ ~Empty(state.LastKnownRect)
    /\ state.InitialROISize > 0

\* the largest width and height ConstrainBoundingBox allows a region of a
\* target acquired with the size initialSize
GrowthBound(initialSize) ==
    LET maxAllowedSize == MaxAllowedSize(initialSize, MaxROIGrowth)
    IN  IF maxAllowedSize > MinROISize THEN maxAllowedSize ELSE MinROISize

\* C24 as claimed: every non-empty rectangle a tick returns is at most
\* max(MinROISize, InitialROISize * MaxROIGrowth) wide and high, where
\* InitialROISize is the size stored when the target now tracked was
\* acquired.
C24_GrowthBound ==
    (pc = "input" /\ ~Empty(trackingRect))
    => (/\ Dx(trackingRect) <= GrowthBound(state.InitialROISize)
        /\ Dy(trackingRect) <= GrowthBound(state.InitialROISize))

\* a tick whose tracker update succeeded
GoodUpdateTick ==
    /\ TickStep
    /\ HasUpdate(calls')
    /\ UpdateOf(calls').ok

\* C26: after every tick whose update succeeded the session is in
\* ActiveTracking and the failure counter is 1 with LastKnownRect as it was
\* (the update was flagged as suspected drift), or 0 with LastKnownRect the
\* returned rectangle (it was accepted); so no run of successful updates,
\* flagged or not, counts up to MaxTrackingFailures or leaves ActiveTracking.
C26_DriftDoesNotAccumulate ==
    [][GoodUpdateTick
       => (/\ state'.TrackingEnabled
           /\ ~state'.AutoTrackingEnabled
           /\ ~state'.ROISelectionMode
           /\ state'.TrackingFailureCount < MaxTrackingFailures
           /\ IF ~Empty(state.LastKnownRect)
                   /\ RatioOutside(UpdateOf(calls').rect, state.LastKnownRect)
              THEN /\ state'.TrackingFailureCount = 1
                   /\ state'.LastKnownRect = state.LastKnownRect
              ELSE /\ state'.TrackingFailureCount = 0
                   /\ state'.LastKnownRect = trackingRect')]_vars

\* after a tick flagged as suspected drift, late in the session: the counter
\* is 1 and the update's rectangle is still outside the ratio to the
\* unchanged LastKnownRect
C26_Witness ==
    /\ pc = "input"
    /\ state.FrameCount >= MaxTrackingFailures + 2
    /\ state.TrackingEnabled
    /\ HasUpdate(calls)
    /\ UpdateOf(calls).ok
    /\ state.TrackingFailureCount = 1
    /\ ~Empty(state.LastKnownRect)
    /\ RatioOutside(UpdateOf(calls).rect, state.LastKnownRect)
    /\ trackingRect = state.LastKnownRect

\* the failure counter is in its range
CounterInRange(st) ==
    0 <= st.TrackingFailureCount /\ st.TrackingFailureCount < MaxTrackingFailures

\* C27: at the end of every tick and after every key the failure counter is
\* at least 0 and below MaxTrackingFailures, and only ProcessTracking writes
\* it: a key (ENTER's acquisition included) leaves it as it was, and so does
\* a tick on which Tracker.Update is not called (auto-detection included).
C27_CounterRange ==
    [][/\ CounterInRange(state)
       /\ CounterInRange(state')
       /\ (~TickStep \/ ~HasUpdate(calls'))
             => state'.TrackingFailureCount = state.TrackingFailureCount]_vars

\* a selection begun with 's' while the tracked target had one failure left:
\* the key left the counter at MaxTrackingFailures - 1
C27_Witness ==
    /\ pc = "frame"
    /\ state.ROISelectionMode
    /\ state.TrackingFailureCount = MaxTrackingFailures - 1

----------------------------------------------------------------------------
(* Properties of the run of failed updates (specification SpecRun)         *)

\* the tick gave up: the update failed and tracking is off afterwards
GaveUp ==
    /\ pc = "input"
    /\ HasUpdate(calls)
    /\ ~UpdateOf(calls).ok
    /\ ~state.TrackingEnabled

\* C25 as claimed: when a tick gives up, the target it gives up on has had
\* at least MaxTrackingFailures consecutive failed updates since it was
\* acquired, whatever ticks and keys came before the acquisition.
C25_NoPrematureGiveUp ==
    GaveUp => hist.FailedRun >= MaxTrackingFailures

----------------------------------------------------------------------------
(* Properties of the tracker calls (specification SpecProtocol)            *)

\* the session is in ActiveTracking when the tick calls ProcessTracking: it
\* began the tick there, or the auto-detection acquired a target on this tick
ActiveAtUpdate ==
    /\ ~state.ROISelectionMode
    /\ \/ state.TrackingEnabled /\ ~state.AutoTrackingEnabled
       \/ ~state.TrackingEnabled /\ AutoInit(calls') /\ calls'[1].ok

\* C28 as claimed: Tracker.Update is called only on ticks in ActiveTracking,
\* and whenever it is called the last Tracker.Init call before it, of an
\* acquisition or of a recovery, returned success.
C28_UpdateAfterInitOk ==
    [][(TickStep /\ HasUpdate(calls'))
       => (/\ ActiveAtUpdate
           /\ hist'.InitAtUpdate \in {"acquired", "recovered"})]_vars

\* C28 amended: Tracker.Update is called only with the session in
\* ActiveTracking (entered at the latest by the auto-detection of the same
\* tick), and whenever it is called the last acquisition - the Tracker.Init
\* of ENTER or of the auto-detection - returned success; the last
\* Tracker.Init call is that acquisition or a later recovery, which may
\* have failed.
C28_UpdateAfterAcquire ==
    [][(TickStep /\ HasUpdate(calls'))
       => (/\ ActiveAtUpdate
           /\ hist'.LastAcquireOk
           /\ hist'.InitAtUpdate \in {"acquired", "recovered", "recovery failed"})]_vars

\* after a tick that called Tracker.Update although the recovery of the
\* tick before had failed
C28_Witness ==
    /\ pc = "input"
    /\ HasUpdate(calls)
    /\ hist.InitAtUpdate = "recovery failed"
    /\ hist.LastAcquireOk

====
